---------------------------- MODULE Spec2Model ----------------------------
(***************************************************************************)
(* ResourceClient (src/lib/resource-client/client.ts): the constructor,    *)
(* the generic invoke and the four convenience operations, together with   *)
(* the ambient header lookup and the transport they await.                 *)
(*                                                                         *)
(* Strings that the code takes apart or puts together (URLs, messages) are *)
(* sequences of tokens, "/" being a token of its own.  A JavaScript value  *)
(* that may be undefined is <<>> (undefined) or <<v>> (the value v).       *)
(***************************************************************************)
EXTENDS Integers, Sequences, FiniteSets, TLC

\* Longest base URL, in tokens, handed to the constructor.
MaxUrlLen == 3
\* Number of invoke calls that may be in flight on the one client.
MaxCalls == 2

Calls == 1..MaxCalls

Undefined == <<>>
Null == <<>>
Some(v) == <<v>>

\* JavaScript truthiness of a string or null: null and "" are falsy.
Truthy(x) == x # Null /\ x # Some("")

\* `a || b` for an optional number a: undefined and 0 are falsy.
OrElse(a, b) == IF a # Undefined /\ a # Some(0) THEN a ELSE b

DefaultTimeoutMs == 30000

---------------------------------------------------------------------------
(* Inputs *)

SeqsUpTo(S, n) == UNION {[1..k -> S] : k \in 0..n}
BaseUrls == SeqsUpTo({"h", "/"}, MaxUrlLen)
Tokens == {"svc1", "svc2"}
AppIds == {<<"app1">>, <<"a", "/", "b">>}
ResourceIds == {<<"res1">>}
InvocationKeys == {"k1", ""}
TimeoutInputs == {Undefined, Some(0), Some(5000)}
SqlInputs == {"SELECT 1"}
ParamInputs == {Undefined, Some("[123]")}
\* S3 params are Record<string, unknown>: "circular" stands for a value
\* JSON.stringify cannot serialize (a cycle, a BigInt).
S3ParamInputs == {Some("{Bucket}"), Some("circular")}
S3Commands == {"ListObjectsV2", "GeneratePresignedUrl"}
HeaderInputs == {Undefined, Some("{X-Api-Key}")}
BodyInputs == {Undefined, Some("{json}")}

\* The ambient request context: outside a request scope headers() rejects;
\* inside one, x-major-user-jwt is absent (get gives null), empty, or a token.
AmbientContexts ==
    {[scope |-> FALSE, userJwt |-> Null]}
    \cup {[scope |-> TRUE, userJwt |-> j] : j \in {Null, Some(""), Some("usr1")}}

---------------------------------------------------------------------------
(* Errors *)

\* A thrown Error instance, or a thrown value that is no Error (a string).
ErrorOf(name, message) == [name |-> name, message |-> message, isError |-> TRUE]
ThrownString(s) == [isError |-> FALSE, value |-> s]

HeadersError == ErrorOf("Error", <<"headers was called outside a request scope">>)
StringifyError == ErrorOf("TypeError", <<"Converting circular structure to JSON">>)
JsonParseError == ErrorOf("SyntaxError", <<"Unexpected token < in JSON">>)
FetchFailures == {ErrorOf("TypeError", <<"fetch failed">>), ThrownString(<<"boom">>)}

ResourceInvokeError(message) ==
    [name |-> "ResourceInvokeError", message |-> message, isError |-> TRUE,
     httpStatus |-> Undefined, requestId |-> Undefined]

\* `error instanceof Error ? error.message : String(error)`
MessageOf(error) == IF error.isError THEN error.message ELSE error.value

CatchErrorNoMessage(error) == ResourceInvokeError(<<"Failed to invoke resource">>)

\* The catch block of invoke.
CatchError(error) ==
    ResourceInvokeError(<<"Failed to invoke resource: ">> \o MessageOf(error))

---------------------------------------------------------------------------
(* Constructor *)

NormalizeBaseUrlKeep(baseUrl) == baseUrl

\* baseUrl.replace(/\/$/, ""): one trailing slash is removed.
NormalizeBaseUrl(baseUrl) ==
    IF Len(baseUrl) > 0 /\ baseUrl[Len(baseUrl)] = "/"
    THEN SubSeq(baseUrl, 1, Len(baseUrl) - 1)
    ELSE baseUrl

Constructor(given) ==
    [baseUrl |-> NormalizeBaseUrl(given.baseUrl),
     majorJWTToken |-> given.majorJWTToken]

---------------------------------------------------------------------------
(* Payload construction of the convenience operations *)

PostgresPayloadDefaulted(sql, params, timeoutMs) ==
    [sql |-> Some(sql), params |-> params,
     timeoutMs |-> OrElse(timeoutMs, Some(DefaultTimeoutMs)),
     type |-> Some("database"), subtype |-> Some("postgresql")]

PostgresPayload(sql, params, timeoutMs) ==
    [sql |-> Some(sql), params |-> params, timeoutMs |-> timeoutMs,
     type |-> Some("database"), subtype |-> Some("postgresql")]

CustomApiPayload(method, path, options) ==
    [timeoutMs |-> OrElse(options.timeoutMs, Some(DefaultTimeoutMs)),
     type |-> Some("api"), subtype |-> Some("custom"),
     method |-> Some(method), path |-> Some(path),
     query |-> options.query, headers |-> options.headers,
     body |-> options.body]

HubspotApiPayloadWithHeaders(method, path, options) ==
    [timeoutMs |-> OrElse(options.timeoutMs, Some(DefaultTimeoutMs)),
     type |-> Some("api"), subtype |-> Some("hubspot"),
     method |-> Some(method), path |-> Some(path),
     query |-> options.query, headers |-> Undefined, body |-> options.body]

HubspotApiPayload(method, path, options) ==
    [timeoutMs |-> OrElse(options.timeoutMs, Some(DefaultTimeoutMs)),
     type |-> Some("api"), subtype |-> Some("hubspot"),
     method |-> Some(method), path |-> Some(path),
     query |-> options.query, body |-> options.body]

S3Payload(command, params, options) ==
    [params |-> params, timeoutMs |-> options.timeoutMs,
     type |-> Some("storage"), subtype |-> Some("s3"),
     command |-> Some(command)]

\* Payloads handed to invoke directly.
DirectPayloads ==
    {PostgresPayload("SELECT 1", Undefined, Undefined),
     [timeoutMs |-> Some(0), type |-> Some("api"), subtype |-> Some("custom"),
      method |-> Some("GET"), path |-> Some("/x")],
     S3Payload("ListObjectsV2", Some("circular"), [timeoutMs |-> Some(5000)])}

---------------------------------------------------------------------------
(* Request construction inside invoke *)

Route(applicationId, resourceId) ==
    <<"/", "internal", "/", "apps", "/", "v1", "/">> \o applicationId
        \o <<"/", "resource", "/">> \o resourceId \o <<"/", "invoke">>

InvokeUrlSwapped(baseUrl, applicationId, resourceId) ==
    baseUrl \o Route(resourceId, applicationId)

\* `${this.config.baseUrl}/internal/apps/v1/${applicationId}/resource/${resourceId}/invoke`
InvokeUrl(baseUrl, applicationId, resourceId) ==
    baseUrl \o Route(applicationId, resourceId)

\* headersList.get("x-major-user-jwt"): null when the header is absent.
HeadersGet(ambient) == ambient.userJwt

RequestHeadersUserOnly(majorJWTToken, userJWT) ==
    IF Truthy(userJWT)
    THEN [h \in {"Content-Type", "x-major-user-jwt"} |->
            IF h = "Content-Type" THEN "application/json" ELSE userJWT[1]]
    ELSE [h \in {"Content-Type", "x-major-jwt"} |->
            IF h = "Content-Type" THEN "application/json" ELSE majorJWTToken]

RequestHeadersFallback(majorJWTToken, userJWT) ==
    [h \in {"Content-Type", "x-major-jwt", "x-major-user-jwt"} |->
        CASE h = "Content-Type" -> "application/json"
          [] h = "x-major-jwt" -> majorJWTToken
          [] OTHER -> IF Truthy(userJWT) THEN userJWT[1] ELSE majorJWTToken]

\* The headers object literal: the spread comes last and adds the end-user
\* header only for a truthy userJWT.
RequestHeaders(majorJWTToken, userJWT) ==
    (IF Truthy(userJWT)
     THEN [h \in {"x-major-user-jwt"} |-> userJWT[1]]
     ELSE [h \in {} |-> ""])
    @@ [h \in {"Content-Type", "x-major-jwt"} |->
          IF h = "Content-Type" THEN "application/json" ELSE majorJWTToken]

\* JSON.stringify throws on a value it cannot serialize.
Serializable(body) ==
    ~("params" \in DOMAIN body.payload /\ body.payload.params = Some("circular"))

\* JSON.stringify of an object leaves out the properties whose value is
\* undefined; the others keep their values.
StringifyObject(obj) ==
    [f \in {g \in DOMAIN obj : obj[g] # Undefined} |-> obj[f][1]]

JsonStringifyKeyDefaulted(body) ==
    [payload |-> StringifyObject(body.payload),
     invocationKey |-> IF body.invocationKey = "" THEN "default"
                       ELSE body.invocationKey]

JsonStringify(body) ==
    [payload |-> StringifyObject(body.payload),
     invocationKey |-> body.invocationKey]

---------------------------------------------------------------------------
(* State *)

VARIABLES
    env,        \* process.env: MAJOR_JWT_TOKEN and MAJOR_API_BASE_URL
    given,      \* the ClientConfig handed to the constructor
    config,     \* this.config
    pc,         \* per call: where the call is
    call,       \* per call: the operation called and its arguments
    ambient,    \* per call: the ambient request context of the call
    frame,      \* per call: the locals of invoke
    sent,       \* per call: the transport requests it made, in order
    response,   \* per call: the response the transport delivered
    fault,      \* per call: what was thrown inside the call, and where
    outcome     \* per call: what the caller observes

vars == <<env, given, config, pc, call, ambient, frame, sent, response, fault, outcome>>

NoCall == [op |-> "none"]
NoFrame == [url |-> <<>>]
NoResponse == [status |-> 0]
NoFault == [src |-> "none"]
Pending == [kind |-> "pending"]

Resolved(value) == [value |-> value, kind |-> "resolved"]
Rejected(error) == [error |-> error, kind |-> "rejected"]

Done(c) == pc[c] \in {"resolved", "rejected"}

\* The state after `new ResourceClient({baseUrl, majorJWTToken})`, for the
\* base URLs and tokens of the given sets.
\* No call has been made.
InitCalls ==
    /\ pc = [c \in Calls |-> "idle"]
    /\ call = [c \in Calls |-> NoCall]
    /\ ambient = [c \in Calls |-> [scope |-> FALSE, userJwt |-> Null]]
    /\ frame = [c \in Calls |-> NoFrame]
    /\ sent = [c \in Calls |-> <<>>]
    /\ response = [c \in Calls |-> NoResponse]
    /\ fault = [c \in Calls |-> NoFault]
    /\ outcome = [c \in Calls |-> Pending]

\* The client is set up as documented, with majorJWTToken taken from
\* process.env.MAJOR_JWT_TOKEN; the per-call state is InitCalls.
InitWith(baseUrls, tokens) ==
    /\ \E b \in baseUrls, t \in tokens :
          /\ env = [MAJOR_JWT_TOKEN |-> Some(t), MAJOR_API_BASE_URL |-> Some(b)]
          /\ given = [baseUrl |-> b, majorJWTToken |-> t]
          /\ config = Constructor([baseUrl |-> b, majorJWTToken |-> t])
    /\ InitCalls


Init == InitWith(BaseUrls, Tokens)

\* invoke up to its first await: the URL is built and headers() is called.
EnterInvoke(c, op, applicationId, resourceId, payload, invocationKey, timeoutMs) ==
    /\ pc[c] = "idle"
    /\ \E a \in AmbientContexts : ambient' = [ambient EXCEPT ![c] = a]
    /\ call' = [call EXCEPT ![c] =
                  [timeoutMs |-> timeoutMs, applicationId |-> applicationId,
                   resourceId |-> resourceId, payload |-> payload,
                   invocationKey |-> invocationKey, op |-> op]]
    /\ frame' = [frame EXCEPT ![c] =
                  [payload |-> payload, invocationKey |-> invocationKey,
                   url |-> InvokeUrl(config.baseUrl, applicationId, resourceId)]]
    /\ pc' = [pc EXCEPT ![c] = "headers"]
    /\ UNCHANGED <<env, given, config, sent, response, fault, outcome>>

Invoke(c) ==
    \E a \in AppIds, r \in ResourceIds, p \in DirectPayloads, k \in InvocationKeys :
        EnterInvoke(c, "invoke", a, r, p, k, Undefined)

InvokePostgres(c) ==
    \E a \in AppIds, r \in ResourceIds, sql \in SqlInputs, params \in ParamInputs,
       k \in InvocationKeys, timeoutMs \in TimeoutInputs :
        EnterInvoke(c, "invokePostgres", a, r,
                    PostgresPayload(sql, params, timeoutMs), k, timeoutMs)

InvokeCustomApi(c) ==
    \E a \in AppIds, r \in ResourceIds, k \in InvocationKeys,
       h \in HeaderInputs, timeoutMs \in TimeoutInputs :
        EnterInvoke(c, "invokeCustomApi", a, r,
                    CustomApiPayload("GET", "/x",
                        [timeoutMs |-> timeoutMs, query |-> Undefined, headers |-> h,
                         body |-> Undefined]),
                    k, timeoutMs)

InvokeHubspotApi(c) ==
    \E a \in AppIds, r \in ResourceIds, k \in InvocationKeys,
       b \in BodyInputs, timeoutMs \in TimeoutInputs :
        EnterInvoke(c, "invokeHubspotApi", a, r,
                    HubspotApiPayload("POST", "/crm/v3/objects/deals",
                        [timeoutMs |-> timeoutMs, query |-> Undefined, body |-> b]),
                    k, timeoutMs)

InvokeS3(c) ==
    \E a \in AppIds, r \in ResourceIds, k \in InvocationKeys,
       cmd \in S3Commands, params \in S3ParamInputs, timeoutMs \in TimeoutInputs :
        EnterInvoke(c, "invokeS3", a, r,
                    S3Payload(cmd, params, [timeoutMs |-> timeoutMs]), k, timeoutMs)

\* `await headers()` rejects: the line is outside the try block, so the
\* error leaves invoke as it is.
HeadersReject(c) ==
    /\ pc[c] = "headers"
    /\ ~ambient[c].scope
    /\ fault' = [fault EXCEPT ![c] = [error |-> HeadersError, src |-> "headers"]]
    /\ outcome' = [outcome EXCEPT ![c] = Rejected(HeadersError)]
    /\ pc' = [pc EXCEPT ![c] = "rejected"]
    /\ UNCHANGED <<env, given, config, call, ambient, frame, sent, response>>

HeadersResolveShared(c) ==
    /\ pc[c] = "headers"
    /\ ambient[c].scope
    /\ LET userJWT == HeadersGet(ambient[c])
           last == CHOOSE d \in Calls :
                     /\ pc[d] # "idle"
                     /\ \A e \in Calls : pc[e] # "idle" => e <= d
           body == [payload |-> frame[last].payload,
                    invocationKey |-> frame[last].invocationKey]
       IN  IF Serializable(body)
           THEN /\ sent' = [sent EXCEPT ![c] = Append(@,
                              [method |-> "POST",
                               headers |-> RequestHeaders(config.majorJWTToken, userJWT),
                               body |-> JsonStringify(body),
                               url |-> frame[c].url])]
                /\ pc' = [pc EXCEPT ![c] = "fetch"]
                /\ UNCHANGED <<fault, outcome>>
           ELSE /\ fault' = [fault EXCEPT ![c] =
                               [error |-> StringifyError, src |-> "stringify"]]
                /\ outcome' = [outcome EXCEPT ![c] = Rejected(CatchError(StringifyError))]
                /\ pc' = [pc EXCEPT ![c] = "rejected"]
                /\ UNCHANGED sent
    /\ UNCHANGED <<env, given, config, call, ambient, frame, response>>

\* `await headers()` resolves: the body is built and, inside the try block,
\* serialized and handed to the transport.
HeadersResolve(c) ==
    /\ pc[c] = "headers"
    /\ ambient[c].scope
    /\ LET userJWT == HeadersGet(ambient[c])
           body == [payload |-> frame[c].payload,
                    invocationKey |-> frame[c].invocationKey]
       IN  IF Serializable(body)
           THEN /\ sent' = [sent EXCEPT ![c] = Append(@,
                              [method |-> "POST",
                               headers |-> RequestHeaders(config.majorJWTToken, userJWT),
                               body |-> JsonStringify(body),
                               url |-> frame[c].url])]
                /\ pc' = [pc EXCEPT ![c] = "fetch"]
                /\ UNCHANGED <<fault, outcome>>
           ELSE /\ fault' = [fault EXCEPT ![c] =
                               [error |-> StringifyError, src |-> "stringify"]]
                /\ outcome' = [outcome EXCEPT ![c] = Rejected(CatchError(StringifyError))]
                /\ pc' = [pc EXCEPT ![c] = "rejected"]
                /\ UNCHANGED sent
    /\ UNCHANGED <<env, given, config, call, ambient, frame, response>>

\* What the transport may deliver: a status and a body that is JSON (the
\* value it parses to) or is not.
Envelopes ==
    {[requestId |-> "r1", ok |-> TRUE,
      result |-> [kind |-> "database", rows |-> "[{?column?:1}]"]],
     [requestId |-> "r2",
      error |-> [message |-> "upstream down", httpStatus |-> 502], ok |-> FALSE],
     [requestId |-> "r3", ok |-> TRUE,
      result |-> [kind |-> "storage", presignedUrl |-> "https://x/y",
                  expiresAt |-> "2025-01-01T00:00:00Z"]],
     [requestId |-> "r4", ok |-> TRUE,
      result |-> [body |-> "{json}", status |-> 200, kind |-> "api"]],
     [requestId |-> "r5", ok |-> TRUE],
     [requestId |-> "r6", error |-> [message |-> "partial"], ok |-> FALSE,
      result |-> [command |-> "ListBuckets", kind |-> "storage", data |-> "{}"]]}
Statuses == {200, 500}
Responses ==
    {[body |-> [value |-> v, kind |-> "json"], status |-> s] :
        s \in Statuses, v \in Envelopes}
    \cup {[body |-> [kind |-> "text"], status |-> s] : s \in Statuses}

\* The transport rejects: the catch block wraps what it threw.
FetchRejectRetry(c) ==
    /\ pc[c] = "fetch"
    /\ Len(sent[c]) < 3
    /\ sent' = [sent EXCEPT ![c] = Append(@, sent[c][1])]
    /\ UNCHANGED <<env, given, config, pc, call, ambient, frame, response, fault, outcome>>

FetchReject(c) ==
    /\ pc[c] = "fetch"
    /\ \E e \in FetchFailures :
          /\ fault' = [fault EXCEPT ![c] = [error |-> e, src |-> "fetch"]]
          /\ outcome' = [outcome EXCEPT ![c] = Rejected(CatchError(e))]
    /\ pc' = [pc EXCEPT ![c] = "rejected"]
    /\ UNCHANGED <<env, given, config, call, ambient, frame, sent, response>>

\* The transport resolves, with one of the given responses: response.json()
\* is called on what it delivered.
FetchResolveFrom(c, responses) ==
    /\ pc[c] = "fetch"
    /\ \E r \in responses : response' = [response EXCEPT ![c] = r]
    /\ pc' = [pc EXCEPT ![c] = "json"]
    /\ UNCHANGED <<env, given, config, call, ambient, frame, sent, fault, outcome>>

FetchResolve(c) == FetchResolveFrom(c, Responses)

InvokeReturnRebuilt(resp, data) ==
    Resolved([requestId |-> data.requestId, ok |-> data.ok])

InvokeReturnNormalized(resp, data) ==
    IF "result" \in DOMAIN data /\ data.result.kind = "database"
    THEN Resolved([data EXCEPT !.result =
                     [kind |-> "database", rows |-> data.result.rows,
                      rowsAffected |-> 0]])
    ELSE Resolved(data)

InvokeReturnCheckingStatus(resp, data) ==
    IF resp.status >= 400 \/ ~data.ok
    THEN Rejected(ResourceInvokeError(<<"Failed to invoke resource: ">>))
    ELSE Resolved(data)

\* `return data as InvokeResponse`: the parsed body as it is; neither the
\* status nor data.ok is looked at.
InvokeReturn(resp, data) == Resolved(data)

\* response.json() resolves.
JsonResolve(c) ==
    /\ pc[c] = "json"
    /\ response[c].body.kind = "json"
    /\ LET out == InvokeReturn(response[c], response[c].body.value)
       IN  /\ outcome' = [outcome EXCEPT ![c] = out]
           /\ pc' = [pc EXCEPT ![c] = out.kind]
    /\ UNCHANGED <<env, given, config, call, ambient, frame, sent, response, fault>>

\* response.json() rejects: the body is not JSON.
JsonReject(c) ==
    /\ pc[c] = "json"
    /\ response[c].body.kind = "text"
    /\ fault' = [fault EXCEPT ![c] = [error |-> JsonParseError, src |-> "json"]]
    /\ outcome' = [outcome EXCEPT ![c] = Rejected(CatchError(JsonParseError))]
    /\ pc' = [pc EXCEPT ![c] = "rejected"]
    /\ UNCHANGED <<env, given, config, call, ambient, frame, sent, response>>

Step(c) ==
    \/ Invoke(c)
    \/ InvokePostgres(c)
    \/ InvokeCustomApi(c)
    \/ InvokeHubspotApi(c)
    \/ InvokeS3(c)
    \/ HeadersReject(c)
    \/ HeadersResolve(c)
    \/ FetchReject(c)
    \/ FetchResolve(c)
    \/ JsonResolve(c)
    \/ JsonReject(c)

\* One call on the client.
Next == Step(1)

Spec == Init /\ [][Next]_vars

\* Overlapping invoke calls on one client: every call slot may start, and
\* the header lookups and transport answers of the calls interleave freely.
ConcBaseUrls == {<<"h", "/">>}
ConcTokens == {"svc1"}
ConcInputs ==
    {[payload |-> PostgresPayload("SELECT 1", Undefined, Undefined), key |-> "k1"],
     [payload |-> S3Payload("ListBuckets", Some("{}"), [timeoutMs |-> Some(5000)]),
      key |-> ""]}
ConcResponses ==
    {r \in Responses :
        \/ r.status = 500 /\ r.body.kind = "text"
        \/ r.body.kind = "json" /\ r.body.value.requestId \in {"r1", "r2"}
                                /\ r.status = (IF r.body.value.ok THEN 200 ELSE 500)}

InitConc == InitWith(ConcBaseUrls, ConcTokens)

InvokeConc(c) ==
    \E in \in ConcInputs :
        EnterInvoke(c, "invoke", <<"app1">>, <<"res1">>, in.payload, in.key, Undefined)

StepConc(c) ==
    \/ InvokeConc(c)
    \/ HeadersReject(c)
    \/ HeadersResolve(c)
    \/ FetchReject(c)
    \/ FetchResolveFrom(c, ConcResponses)
    \/ JsonResolve(c)
    \/ JsonReject(c)

NextConc == \E c \in Calls : StepConc(c)

SpecConc == InitConc /\ [][NextConc]_vars

---------------------------------------------------------------------------
(* getCurrentUser (src/lib/auth.ts) *)

EnvTokens == {Undefined, Some(""), Some("svc1")}
EnvBaseUrls == {Undefined, Some(<<"h">>)}

\* process.env.MAJOR_API_BASE_URL || 'https://go-api.prod.major.build'
ApiBaseUrl(e) ==
    IF e.MAJOR_API_BASE_URL # Undefined /\ e.MAJOR_API_BASE_URL # Some(<<>>)
    THEN e.MAJOR_API_BASE_URL[1]
    ELSE <<"https:", "/", "/", "go-api.prod.major.build">>

MeUrl(e) == ApiBaseUrl(e) \o <<"/", "internal", "/", "apps", "/", "v1", "/", "me">>

NoJwtError ==
    ErrorOf("Error", <<"No user JWT found. Ensure x-major-user-jwt header is present.">>)
FetchUserError(statusText) ==
    ErrorOf("Error", <<"Failed to fetch user: ", statusText>>)

\* `!userJwt && !majorJwtToken`
NoCredential(userJwt, majorJwtToken) == ~Truthy(userJwt) /\ ~Truthy(majorJwtToken)

FetchHeadersBoth(userJwt, majorJwtToken) ==
    [h \in {n \in {"x-major-user-jwt", "x-major-jwt"} :
               IF n = "x-major-user-jwt" THEN Truthy(userJwt) ELSE Truthy(majorJwtToken)}
        |-> IF h = "x-major-user-jwt" THEN userJwt[1] ELSE majorJwtToken[1]]

\* fetchHeaders: the end-user credential when there is one, the service
\* token otherwise.
FetchHeaders(userJwt, majorJwtToken) ==
    IF Truthy(userJwt)
    THEN [h \in {"x-major-user-jwt"} |-> userJwt[1]]
    ELSE [h \in {"x-major-jwt"} |-> majorJwtToken[1]]

\* What the transport may deliver to getCurrentUser.
UserResponses ==
    {[body |-> [value |-> [user |-> [name |-> "n", userId |-> "u1", email |-> "e"]],
                kind |-> "json"],
      status |-> 200, statusText |-> "OK"],
     [body |-> [kind |-> "text"], status |-> 200, statusText |-> "OK"],
     [body |-> [kind |-> "text"], status |-> 401, statusText |-> "Unauthorized"]}

\* res.ok
ResOk(res) == res.status >= 200 /\ res.status <= 299

\* getCurrentUser up to its first await.
GetCurrentUser(c) ==
    /\ pc[c] = "idle"
    /\ \E a \in AmbientContexts : ambient' = [ambient EXCEPT ![c] = a]
    /\ call' = [call EXCEPT ![c] = [op |-> "getCurrentUser"]]
    /\ pc' = [pc EXCEPT ![c] = "user_headers"]
    /\ UNCHANGED <<env, given, config, frame, sent, response, fault, outcome>>

\* `await headers()` rejects.
UserHeadersReject(c) ==
    /\ pc[c] = "user_headers"
    /\ ~ambient[c].scope
    /\ fault' = [fault EXCEPT ![c] = [error |-> HeadersError, src |-> "headers"]]
    /\ outcome' = [outcome EXCEPT ![c] = Rejected(HeadersError)]
    /\ pc' = [pc EXCEPT ![c] = "rejected"]
    /\ UNCHANGED <<env, given, config, call, ambient, frame, sent, response>>

\* `await headers()` resolves: without any credential the function throws,
\* otherwise it builds the headers and calls fetch.
UserHeadersResolve(c) ==
    /\ pc[c] = "user_headers"
    /\ ambient[c].scope
    /\ LET userJwt == HeadersGet(ambient[c])
           majorJwtToken == env.MAJOR_JWT_TOKEN
       IN  IF NoCredential(userJwt, majorJwtToken)
           THEN /\ fault' = [fault EXCEPT ![c] = [error |-> NoJwtError, src |-> "nojwt"]]
                /\ outcome' = [outcome EXCEPT ![c] = Rejected(NoJwtError)]
                /\ pc' = [pc EXCEPT ![c] = "rejected"]
                /\ UNCHANGED <<frame, sent>>
           ELSE /\ frame' = [frame EXCEPT ![c] =
                               [userJwt |-> userJwt, url |-> MeUrl(env),
                                majorJwtToken |-> majorJwtToken]]
                /\ sent' = [sent EXCEPT ![c] = Append(@,
                              [method |-> "GET",
                               headers |-> FetchHeaders(userJwt, majorJwtToken),
                               url |-> MeUrl(env)])]
                /\ pc' = [pc EXCEPT ![c] = "user_fetch"]
                /\ UNCHANGED <<fault, outcome>>
    /\ UNCHANGED <<env, given, config, call, ambient, response>>

\* fetch rejects: there is no try block, the error leaves as it is.
UserFetchReject(c) ==
    /\ pc[c] = "user_fetch"
    /\ \E e \in FetchFailures :
          /\ fault' = [fault EXCEPT ![c] = [error |-> e, src |-> "fetch"]]
          /\ outcome' = [outcome EXCEPT ![c] = Rejected(e)]
    /\ pc' = [pc EXCEPT ![c] = "rejected"]
    /\ UNCHANGED <<env, given, config, call, ambient, frame, sent, response>>

\* fetch resolves: a response that is not ok is thrown as an Error, an ok
\* one has its json() called.
UserFetchResolve(c) ==
    /\ pc[c] = "user_fetch"
    /\ \E r \in UserResponses :
          /\ response' = [response EXCEPT ![c] = r]
          /\ IF ResOk(r)
             THEN /\ pc' = [pc EXCEPT ![c] = "user_json"]
                  /\ UNCHANGED <<fault, outcome>>
             ELSE /\ fault' = [fault EXCEPT ![c] =
                                 [error |-> FetchUserError(r.statusText), src |-> "status"]]
                  /\ outcome' = [outcome EXCEPT ![c] =
                                   Rejected(FetchUserError(r.statusText))]
                  /\ pc' = [pc EXCEPT ![c] = "rejected"]
    /\ UNCHANGED <<env, given, config, call, ambient, frame, sent>>

\* res.json() resolves: `return data as CurrentUserResponse`.
UserJsonResolve(c) ==
    /\ pc[c] = "user_json"
    /\ response[c].body.kind = "json"
    /\ outcome' = [outcome EXCEPT ![c] = Resolved(response[c].body.value)]
    /\ pc' = [pc EXCEPT ![c] = "resolved"]
    /\ UNCHANGED <<env, given, config, call, ambient, frame, sent, response, fault>>

\* res.json() rejects.
UserJsonReject(c) ==
    /\ pc[c] = "user_json"
    /\ response[c].body.kind = "text"
    /\ fault' = [fault EXCEPT ![c] = [error |-> JsonParseError, src |-> "json"]]
    /\ outcome' = [outcome EXCEPT ![c] = Rejected(JsonParseError)]
    /\ pc' = [pc EXCEPT ![c] = "rejected"]
    /\ UNCHANGED <<env, given, config, call, ambient, frame, sent, response>>

\* The environment getCurrentUser runs in: any of the tokens and base URLs,
\* whatever client exists.
InitUser ==
    /\ \E b \in ConcBaseUrls, t \in Tokens, e \in EnvTokens, u \in EnvBaseUrls :
          /\ env = [MAJOR_JWT_TOKEN |-> e, MAJOR_API_BASE_URL |-> u]
          /\ given = [baseUrl |-> b, majorJWTToken |-> t]
          /\ config = Constructor([baseUrl |-> b, majorJWTToken |-> t])
    /\ InitCalls

StepUser(c) ==
    \/ GetCurrentUser(c)
    \/ UserHeadersReject(c)
    \/ UserHeadersResolve(c)
    \/ UserFetchReject(c)
    \/ UserFetchResolve(c)
    \/ UserJsonResolve(c)
    \/ UserJsonReject(c)

NextUser == StepUser(1)

SpecUser == InitUser /\ [][NextUser]_vars

---------------------------------------------------------------------------
(* Claims *)

IsFailureEnvelope(v) == "ok" \in DOMAIN v /\ v.ok = FALSE
Delivered(c) == response[c] # NoResponse
DeliveredJson(c) == Delivered(c) /\ response[c].body.kind = "json"
ConvenienceOps == {"invokePostgres", "invokeCustomApi", "invokeHubspotApi", "invokeS3"}

\* t occurs in s as a contiguous run of tokens.
Contains(s, t) ==
    \E i \in 0..(Len(s) - Len(t)) : SubSeq(s, i + 1, i + Len(t)) = t

\* C1: a call whose transport response parses to an envelope with ok = false
\* ends, whatever the HTTP status, by resolving to that envelope; it raises
\* no error.
C1_FailureEnvelopeReturned ==
    \A c \in Calls :
        (Done(c) /\ DeliveredJson(c) /\ IsFailureEnvelope(response[c].body.value))
            => outcome[c] = Resolved(response[c].body.value)

C1_Witness ==
    \E c \in Calls :
        /\ pc[c] = "resolved"
        /\ call[c].op = "invokeCustomApi"
        /\ response[c].status = 500
        /\ outcome[c].value.ok = FALSE
        /\ outcome[c].value.error.httpStatus = 502

\* C2: when the transport primitive throws (fetch rejects, or response.json()
\* rejects), the call ends in a ResourceInvokeError whose message contains
\* the message of what was thrown, and never resolves.
C2_TransportFailureWrapped ==
    \A c \in Calls :
        (fault[c].src \in {"fetch", "json"})
            => /\ pc[c] = "rejected"
               /\ outcome[c].kind = "rejected"
               /\ outcome[c].error.name = "ResourceInvokeError"
               /\ Contains(outcome[c].error.message, MessageOf(fault[c].error))

C2_Witness ==
    /\ \E c \in Calls : fault[c].src = "json" /\ pc[c] = "rejected"
                         /\ outcome[c].error.name = "ResourceInvokeError"

\* C3 as stated: every finished call has made exactly one transport request.
C3_ExactlyOneRequest ==
    \A c \in Calls : Done(c) => Len(sent[c]) = 1

\* C3 as amended: a call never makes a second transport request, whatever
\* the transport answers; a finished call has made exactly one, unless the
\* header lookup or the serialization of the body failed before the
\* transport was reached, and then it has made none.
C3_AtMostOneRequest ==
    \A c \in Calls :
        /\ Len(sent[c]) <= 1
        /\ pc[c] \in {"fetch", "json"} => Len(sent[c]) = 1
        /\ Done(c) => (Len(sent[c]) = 1 <=> fault[c].src \notin {"headers", "stringify"})

C3_Witness ==
    \E c \in Calls :
        /\ pc[c] = "rejected"
        /\ fault[c].src = "fetch"
        /\ call[c].op \in ConvenienceOps
        /\ Len(sent[c]) = 1

\* C4: whenever a call fails, whatever failed inside invoke (the header
\* lookup, the serialization, the transport call, the JSON parsing), the
\* caller observes a ResourceInvokeError.
C4_AlwaysResourceInvokeError ==
    \A c \in Calls :
        pc[c] = "rejected" => outcome[c].error.name = "ResourceInvokeError"

\* C5: the payload of invokeCustomApi and invokeHubspotApi has timeoutMs
\* 30000 when the caller gives none, and the caller's value, 0 included,
\* when the caller gives one.
C5_HttpTimeoutDefault ==
    \A c \in Calls :
        call[c].op \in {"invokeCustomApi", "invokeHubspotApi"}
            => frame[c].payload.timeoutMs =
                 (IF call[c].timeoutMs = Undefined THEN Some(30000)
                  ELSE call[c].timeoutMs)

EndsInSlash(s) == Len(s) > 0 /\ s[Len(s)] = "/"

\* C7: for a base URL B that does not end in a slash, the client configured
\* with B and the client configured with B followed by one slash send their
\* requests for the same applicationId and resourceId to the same URL.
C7_TrailingSlashSameUrl ==
    \A c \in Calls : \A i \in 1..Len(sent[c]) :
        \A B \in BaseUrls :
            (~EndsInSlash(B) /\ given.baseUrl \in {B, B \o <<"/">>})
                => sent[c][i].url =
                     B \o <<"/", "internal", "/", "apps", "/", "v1", "/">>
                       \o call[c].applicationId \o <<"/", "resource", "/">>
                       \o call[c].resourceId \o <<"/", "invoke">>

C7_Witness ==
    \E c \in Calls :
        /\ given.baseUrl = <<"h", "/">>
        /\ Len(sent[c]) = 1
        /\ sent[c][1].url[1] = "h"
        /\ sent[c][1].url[3] = "internal"

\* C8: every request is a POST to the normalized base URL followed by
\* /internal/apps/v1/{applicationId}/resource/{resourceId}/invoke, with the
\* caller's applicationId and resourceId as given, for invoke and for the
\* convenience operations.
C8_PostToRoute ==
    \A c \in Calls : \A i \in 1..Len(sent[c]) :
        /\ sent[c][i].method = "POST"
        /\ sent[c][i].url =
             config.baseUrl \o <<"/", "internal", "/", "apps", "/", "v1", "/">>
               \o call[c].applicationId \o <<"/", "resource", "/">>
               \o call[c].resourceId \o <<"/", "invoke">>

C8_Witness ==
    \E c \in Calls :
        /\ call[c].op = "invokeS3"
        /\ call[c].applicationId = <<"a", "/", "b">>
        /\ Len(sent[c]) = 1
        /\ sent[c][1].method = "POST"

\* C9: every request carries x-major-jwt with the token given at
\* construction and Content-Type application/json, with or without an
\* end-user credential in the ambient context.
C9_ServiceCredentialAlways ==
    \A c \in Calls : \A i \in 1..Len(sent[c]) :
        LET h == sent[c][i].headers
        IN  /\ {"x-major-jwt", "Content-Type"} \subseteq DOMAIN h
            /\ h["x-major-jwt"] = given.majorJWTToken
            /\ h["Content-Type"] = "application/json"

C9_Witness ==
    \E c \in Calls :
        /\ ambient[c].userJwt = Some("usr1")
        /\ Len(sent[c]) = 1
        /\ sent[c][1].headers["x-major-jwt"] = "svc2"

\* The ambient context holds an end-user credential: the header is there
\* and is not empty.
HoldsUserCredential(c) ==
    ambient[c].scope /\ ambient[c].userJwt # Null /\ ambient[c].userJwt # Some("")

\* C10: a request carries x-major-user-jwt exactly when the ambient context
\* holds an end-user credential, and then with that credential as it is;
\* without one the header is left out, not filled with the service token.
C10_UserCredentialForwarded ==
    \A c \in Calls : \A i \in 1..Len(sent[c]) :
        LET h == sent[c][i].headers
        IN  /\ "x-major-user-jwt" \in DOMAIN h <=> HoldsUserCredential(c)
            /\ HoldsUserCredential(c) => h["x-major-user-jwt"] = ambient[c].userJwt[1]

C10_Witness ==
    \E c \in Calls :
        /\ ambient[c].scope
        /\ ambient[c].userJwt = Null
        /\ Len(sent[c]) = 1
        /\ DOMAIN sent[c][1].headers = {"Content-Type", "x-major-jwt"}

\* The (type, subtype) tag of each convenience operation and the fields
\* legal for it.
TagOf(op) ==
    CASE op = "invokePostgres" -> <<"database", "postgresql">>
      [] op = "invokeCustomApi" -> <<"api", "custom">>
      [] op = "invokeHubspotApi" -> <<"api", "hubspot">>
      [] op = "invokeS3" -> <<"storage", "s3">>

LegalFields(op) ==
    CASE op = "invokePostgres" -> {"type", "subtype", "sql", "params", "timeoutMs"}
      [] op = "invokeCustomApi" ->
           {"type", "subtype", "method", "path", "query", "headers", "body", "timeoutMs"}
      [] op = "invokeHubspotApi" ->
           {"type", "subtype", "method", "path", "query", "body", "timeoutMs"}
      [] op = "invokeS3" -> {"type", "subtype", "command", "params", "timeoutMs"}

RequiredFields(op) ==
    CASE op = "invokePostgres" -> {"type", "subtype", "sql"}
      [] op \in {"invokeCustomApi", "invokeHubspotApi"} ->
           {"type", "subtype", "method", "path", "timeoutMs"}
      [] op = "invokeS3" -> {"type", "subtype", "command", "params"}

\* C11: the payload a convenience operation constructs has the tag of its
\* family and exactly the fields legal for that tag; what is sent has the
\* required ones and no field of another family (a HubSpot payload has no
\* headers; a database or storage payload has no method, path, query,
\* headers or body).
C11_TagExclusivity ==
    \A c \in Calls :
        call[c].op \in ConvenienceOps
            => /\ <<frame[c].payload.type, frame[c].payload.subtype>>
                    = <<Some(TagOf(call[c].op)[1]), Some(TagOf(call[c].op)[2])>>
               /\ DOMAIN frame[c].payload = LegalFields(call[c].op)
               /\ \A i \in 1..Len(sent[c]) :
                     LET p == sent[c][i].body.payload
                     IN  /\ <<p.type, p.subtype>> = TagOf(call[c].op)
                         /\ RequiredFields(call[c].op) \subseteq DOMAIN p
                         /\ DOMAIN p \subseteq LegalFields(call[c].op)

C11_Witness ==
    \E c \in Calls :
        /\ call[c].op = "invokeHubspotApi"
        /\ Len(sent[c]) = 1
        /\ "headers" \notin DOMAIN frame[c].payload
        /\ sent[c][1].body.payload.subtype = "hubspot"
        /\ "body" \in DOMAIN sent[c][1].body.payload

\* Exactly one of result and error is there, as ok says.
ExactlyOneArm(v) ==
    IF v.ok
    THEN "result" \in DOMAIN v /\ "error" \notin DOMAIN v
    ELSE "error" \in DOMAIN v /\ "result" \notin DOMAIN v

\* C12 as stated: every value invoke returns, for any JSON body the
\* transport delivers, has exactly one of result and error, as ok says.
C12_ExactlyOneOfResultError ==
    \A c \in Calls : pc[c] = "resolved" => ExactlyOneArm(outcome[c].value)

\* C12 as amended: invoke returns the parsed body unvalidated, so the value
\* returned has exactly one of result and error, as ok says, whenever the
\* body the transport delivered has, and has not when the body has not.
C12_ReturnedAsDelivered ==
    \A c \in Calls :
        pc[c] = "resolved"
            => /\ DOMAIN outcome[c].value = DOMAIN response[c].body.value
               /\ outcome[c].value.ok = response[c].body.value.ok
               /\ ExactlyOneArm(outcome[c].value)
                    <=> ExactlyOneArm(response[c].body.value)

C12_Witness ==
    \E c \in Calls :
        /\ pc[c] = "resolved"
        /\ ExactlyOneArm(response[c].body.value)
        /\ ExactlyOneArm(outcome[c].value)
        /\ ~outcome[c].value.ok

FamilyKind(op) ==
    CASE op = "invokePostgres" -> "database"
      [] op \in {"invokeCustomApi", "invokeHubspotApi"} -> "api"
      [] op = "invokeS3" -> "storage"

\* The transport delivered a success envelope of the family of the call.
MatchingSuccess(c) ==
    /\ call[c].op \in ConvenienceOps
    /\ DeliveredJson(c)
    /\ LET v == response[c].body.value
       IN  v.ok /\ "result" \in DOMAIN v /\ v.result.kind = FamilyKind(call[c].op)

\* C13: when the transport delivers a success envelope of the family of a
\* convenience operation, the caller receives the fields of that envelope
\* and of its result, none lost, added or renamed: a presigned-URL result
\* keeps presignedUrl and expiresAt and gets no data or command, a database
\* result delivered without rowsAffected has none.
C13_RoundTrip ==
    \A c \in Calls :
        (Done(c) /\ MatchingSuccess(c))
            => /\ pc[c] = "resolved"
               /\ DOMAIN outcome[c].value = DOMAIN response[c].body.value
               /\ outcome[c].value.requestId = response[c].body.value.requestId
               /\ LET got == outcome[c].value.result
                      put == response[c].body.value.result
                  IN  /\ DOMAIN got = DOMAIN put
                      /\ \A f \in DOMAIN put : got[f] = put[f]

C13_Witness ==
    \E c \in Calls :
        /\ pc[c] = "resolved"
        /\ call[c].op = "invokeS3"
        /\ MatchingSuccess(c)
        /\ DOMAIN outcome[c].value.result = {"kind", "presignedUrl", "expiresAt"}

\* C15: the body of every request is the serialization of an object with the
\* two fields payload and invocationKey and no other: payload is the payload
\* handed to invoke (each of its defined fields with its value), and
\* invocationKey is the caller's string as given, the empty one included.
C15_RequestBody ==
    \A c \in Calls : \A i \in 1..Len(sent[c]) :
        LET b == sent[c][i].body
            p == frame[c].payload
        IN  /\ DOMAIN b = {"payload", "invocationKey"}
            /\ b.invocationKey = call[c].invocationKey
            /\ DOMAIN b.payload = {f \in DOMAIN p : p[f] # Undefined}
            /\ \A f \in DOMAIN b.payload : p[f] = Some(b.payload[f])

C15_Witness ==
    \E c \in Calls :
        /\ call[c].op = "invoke"
        /\ call[c].invocationKey = ""
        /\ Len(sent[c]) = 1
        /\ sent[c][1].body.invocationKey = ""
        /\ sent[c][1].body.payload.sql = "SELECT 1"

\* C16: whatever baseUrl the constructor is given, one ending in two or more
\* slashes included, the base URL the client holds does not end in a slash,
\* and no request URL has two slashes between it and the route.
C16_NoTrailingSlash ==
    /\ ~EndsInSlash(config.baseUrl)
    /\ \A c \in Calls : \A i \in 1..Len(sent[c]) :
          LET n == Len(config.baseUrl)
          IN  ~(n > 0 /\ sent[c][i].url[n] = "/" /\ sent[c][i].url[n + 1] = "/")

\* C17: when the transport delivered a response whose body is not JSON, the
\* ResourceInvokeError raised carries the HTTP status of that response in
\* httpStatus.
C17_ErrorCarriesStatus ==
    \A c \in Calls :
        (pc[c] = "rejected" /\ fault[c].src = "json")
            => outcome[c].error.httpStatus = Some(response[c].status)

\* Everything the model holds of call c.
Slot(c) ==
    <<pc[c], call[c], ambient[c], frame[c], sent[c], response[c], fault[c], outcome[c]>>

\* Call c ended with what its own request produced.
OwnResult(c) ==
    /\ pc[c] = "resolved" =>
          /\ Len(sent[c]) = 1
          /\ DeliveredJson(c)
          /\ outcome[c] = Resolved(response[c].body.value)
    /\ pc[c] = "rejected" =>
          /\ fault[c].src # "none"
          /\ outcome[c].kind = "rejected"
          /\ Contains(outcome[c].error.message, MessageOf(fault[c].error))

\* The requests of call c carry the payload and the invocationKey of call c.
OwnRequest(c) ==
    \A i \in 1..Len(sent[c]) :
        /\ sent[c][i].body.invocationKey = call[c].invocationKey
        /\ sent[c][i].body.payload = StringifyObject(call[c].payload)

\* C14: with calls overlapping on one client, in every interleaving of
\* their header lookups, requests and responses, each call sends its own
\* payload and invocationKey and ends with the envelope or the error of its
\* own request; the configuration of the client never changes, and a step of
\* one call changes nothing of another call.
C14_CallsIndependent ==
    /\ [](\A c \in Calls : OwnRequest(c) /\ OwnResult(c))
    /\ [][/\ config' = config
          /\ given' = given
          /\ env' = env
          /\ \E c \in Calls : \A d \in Calls \ {c} : Slot(d)' = Slot(d)]_vars

C14_Witness ==
    /\ pc[1] = "resolved"
    /\ pc[2] = "rejected"
    /\ fault[2].src = "fetch"
    /\ call[1].invocationKey # call[2].invocationKey
    /\ sent[1][1].body.payload.type = "database"
    /\ sent[2][1].body.payload.type = "storage"
    /\ ~outcome[1].value.ok

\* The credential headers of a request.
CredentialHeaders(req) == DOMAIN req.headers \cap {"x-major-user-jwt", "x-major-jwt"}

\* C18: a request of getCurrentUser carries exactly one credential header:
\* x-major-user-jwt with the ambient end-user credential when there is one,
\* otherwise x-major-jwt with the service token; with neither credential it
\* throws before any request, so no request goes out without a credential.
C18_OneCredentialHeader ==
    \A c \in Calls :
        call[c].op = "getCurrentUser"
            => /\ \A i \in 1..Len(sent[c]) :
                     LET h == sent[c][i].headers
                     IN  /\ Cardinality(CredentialHeaders(sent[c][i])) = 1
                         /\ IF HoldsUserCredential(c)
                            THEN /\ DOMAIN h = {"x-major-user-jwt"}
                                 /\ h["x-major-user-jwt"] = ambient[c].userJwt[1]
                            ELSE /\ DOMAIN h = {"x-major-jwt"}
                                 /\ env.MAJOR_JWT_TOKEN = Some(h["x-major-jwt"])
                                 /\ h["x-major-jwt"] # ""
               /\ (~HoldsUserCredential(c) /\ env.MAJOR_JWT_TOKEN \in {Undefined, Some("")})
                     => /\ sent[c] = <<>>
                        /\ pc[c] \in {"user_headers", "rejected"}

C18_Witness ==
    \E c \in Calls :
        /\ call[c].op = "getCurrentUser"
        /\ ambient[c].scope
        /\ ambient[c].userJwt = Null
        /\ Len(sent[c]) = 1
        /\ sent[c][1].headers = [h \in {"x-major-jwt"} |-> "svc1"]

===========================================================================
